---- MODULE Spec2Model ----
(***************************************************************************)
(* A model of the JSON text processor of src/src/json.rs: the lexer        *)
(* (JsonLexer), the recursive-descent parser (JsonParser), the serializer  *)
(* (generate_json) and the two entry points JSON::parse / JSON::stringify. *)
(*                                                                         *)
(* Text is a sequence of characters; a character is a one-element string,  *)
(* the control characters carry a name in angle brackets.  Character       *)
(* indices are 0-based as in the source, so the character at index i of a  *)
(* text t is t[i + 1].                                                     *)
(***************************************************************************)
EXTENDS Integers, Sequences, FiniteSets, TLC

(***************************************************************************)
(* Characters                                                              *)
(***************************************************************************)
QUOTE == "\""
BSLASH == "\\"
SLASH == "/"
SP == " "
BS == "<BS>"
FF == "<FF>"
LF == "<LF>"
CR == "<CR>"
TAB == "<TAB>"
VT == "<VT>"

\* Option<char>::None of JsonLexer::advance / JsonLexer::current.
NoChar == "<None>"

\* char::is_whitespace (and the set str::trim strips), on the model's characters.
IsWhitespace(c) == c \in {SP, TAB, LF, CR, FF, VT}

Digits == {"0", "1", "2", "3", "4", "5", "6", "7", "8", "9"}

\* The match arm '0'..='9' | '.' | '-' | '+' | 'e' | 'E' of make_number.
NumberChars == Digits \cup {".", "-", "+", "e", "E"}

\* The match arm 'a'..='z' of make_keyword.
LowerLetters ==
  {"a", "b", "c", "d", "e", "f", "g", "h", "i", "j", "k", "l", "m",
   "n", "o", "p", "q", "r", "s", "t", "u", "v", "w", "x", "y", "z"}

\* The match arm 'f'..='t' of lex.
KeywordStart ==
  {"f", "g", "h", "i", "j", "k", "l", "m", "n", "o", "p", "q", "r", "s", "t"}

\* The match arm ':' | ',' | '[' | ']' | '{' | '}' of lex.
SymbolChars == {":", ",", "[", "]", "{", "}"}

(***************************************************************************)
(* Results.  Ok and Err are the two variants of Result<_, Error>; Panic is *)
(* the abnormal end of the call (todo!(), unreachable!()).                 *)
(* An Error is {message, index}; the formatted part of a message is kept   *)
(* apart in arg.                                                           *)
(***************************************************************************)
Err(m, a, i) == [kind |-> "Err", message |-> m, arg |-> a, index |-> i]

Panic(w) == [kind |-> "Panic", what |-> w]

\* A token: its variant, its payload (0 when the variant has none), its pos.
Token(ty, v, p) == [type |-> ty, val |-> v, pos |-> p]

\* What a scanner hands back: the token and the lexer index after it.
Scanned(tok, i) == [kind |-> "Ok", tok |-> tok, index |-> i]

(***************************************************************************)
(* JsonLexer                                                               *)
(***************************************************************************)
RECURSIVE TrimStart(_)
TrimStart(s) ==
  IF s # <<>> /\ IsWhitespace(Head(s)) THEN TrimStart(Tail(s)) ELSE s

RECURSIVE TrimEnd(_)
TrimEnd(s) ==
  IF s # <<>> /\ IsWhitespace(s[Len(s)])
  THEN TrimEnd(SubSeq(s, 1, Len(s) - 1))
  ELSE s

\* json.trim() of JsonLexer::new and JsonParser::new.
Trim(s) == TrimEnd(TrimStart(s))

\* self.json.chars().nth(i)
CharAt(json, i) == IF i >= 0 /\ i < Len(json) THEN json[i + 1] ELSE NoChar

\* The escape arms of make_string that push a character.
EscapeChars == {QUOTE, BSLASH, SLASH, "b", "f", "n", "r", "t"}

\* A slip in the escape arms: the quote and the backslash arm push each
\* other's character.
EscapeDecodeSwapped(e) ==
  CASE e = QUOTE -> BSLASH
    [] e = BSLASH -> QUOTE
    [] e = SLASH -> SLASH
    [] e = "b" -> BS
    [] e = "f" -> FF
    [] e = "n" -> LF
    [] e = "r" -> CR
    [] e = "t" -> TAB

EscapeDecode(e) ==
  CASE e = QUOTE -> QUOTE
    [] e = BSLASH -> BSLASH
    [] e = SLASH -> SLASH
    [] e = "b" -> BS
    [] e = "f" -> FF
    [] e = "n" -> LF
    [] e = "r" -> CR
    [] e = "t" -> TAB

\* A slip in the index of the invalid escape: self.index as it stands, on
\* the character after the backslash.
RECURSIVE StringLoopErrAtIndex(_, _, _, _)
StringLoopErrAtIndex(json, index, result, start) ==
  LET i1 == index + 1
      c == CharAt(json, i1)
  IN  IF c = NoChar THEN Scanned(Token("String", result, start), i1)
      ELSE IF c = QUOTE THEN Scanned(Token("String", result, start), i1 + 1)
      ELSE IF c = BSLASH THEN
        LET i2 == i1 + 1
            e == CharAt(json, i2)
        IN  IF e \in EscapeChars
              THEN StringLoopErrAtIndex(json, i2, Append(result, EscapeDecode(e)), start)
            ELSE IF e = "u" THEN Panic("todo: unicode escape sequences")
            ELSE IF e = NoChar THEN Err("Unexpected end of string", <<>>, i2)
            ELSE Err("Invalid escape sequence", <<e>>, i2)
      ELSE StringLoopErrAtIndex(json, i1, Append(result, c), start)

\* A slip at the end of the text: the literal that is not closed is
\* reported instead of returned.
RECURSIVE StringLoopMustClose(_, _, _, _)
StringLoopMustClose(json, index, result, start) ==
  LET i1 == index + 1
      c == CharAt(json, i1)
  IN  IF c = NoChar THEN Err("Unexpected end of string", <<>>, i1)
      ELSE IF c = QUOTE THEN Scanned(Token("String", result, start), i1 + 1)
      ELSE IF c = BSLASH THEN
        LET i2 == i1 + 1
            e == CharAt(json, i2)
        IN  IF e \in EscapeChars
              THEN StringLoopMustClose(json, i2, Append(result, EscapeDecode(e)), start)
            ELSE IF e = "u" THEN Panic("todo: unicode escape sequences")
            ELSE IF e = NoChar THEN Err("Unexpected end of string", <<>>, i2)
            ELSE Err("Invalid escape sequence", <<e>>, i2 - 1)
      ELSE StringLoopMustClose(json, i1, Append(result, c), start)

\* The while-let loop of make_string; index is the lexer index before the
\* advance() of the loop head.
RECURSIVE StringLoop(_, _, _, _)
StringLoop(json, index, result, start) ==
  LET i1 == index + 1
      c == CharAt(json, i1)
  IN  IF c = NoChar THEN Scanned(Token("String", result, start), i1)
      ELSE IF c = QUOTE THEN Scanned(Token("String", result, start), i1 + 1)
      ELSE IF c = BSLASH THEN
        LET i2 == i1 + 1
            e == CharAt(json, i2)
        IN  IF e \in EscapeChars
              THEN StringLoop(json, i2, Append(result, EscapeDecode(e)), start)
            ELSE IF e = "u" THEN Panic("todo: unicode escape sequences")
            ELSE IF e = NoChar THEN Err("Unexpected end of string", <<>>, i2)
            ELSE Err("Invalid escape sequence", <<e>>, i2 - 1)
      ELSE StringLoop(json, i1, Append(result, c), start)

make_string(json, index) == StringLoop(json, index, <<>>, index)

\* The digit a character stands for.
DigitValue(c) ==
  CASE c = "0" -> 0 [] c = "1" -> 1 [] c = "2" -> 2 [] c = "3" -> 3
    [] c = "4" -> 4 [] c = "5" -> 5 [] c = "6" -> 6 [] c = "7" -> 7
    [] c = "8" -> 8 [] c = "9" -> 9

RECURSIVE DecimalValue(_)
DecimalValue(s) ==
  IF s = <<>> THEN 0
  ELSE 10 * DecimalValue(SubSeq(s, 1, Len(s) - 1)) + DigitValue(s[Len(s)])

\* result.parse::<f64>() on the literals the model's inputs can produce: an
\* optional '-' and a non-empty run of digits give the integer they denote,
\* every other text over digits and '-' is refused.  (A fraction or an
\* exponent never reaches it: no input of the model puts '.', '+', 'e' or
\* 'E' where make_number scans; such a text is reported as not modelled,
\* and InputsModelled checks that none is ever met.)
ParseF64(s) ==
  LET body == IF s # <<>> /\ Head(s) = "-" THEN Tail(s) ELSE s
  IN  IF \E i \in 1..Len(s) : s[i] \notin (Digits \cup {"-"})
        THEN [ok |-> FALSE, modelled |-> FALSE, val |-> 0]
      ELSE IF body # <<>> /\ \A i \in 1..Len(body) : body[i] \in Digits
        THEN [ok |-> TRUE, modelled |-> TRUE,
              val |-> IF body = s THEN DecimalValue(body) ELSE 0 - DecimalValue(body)]
      ELSE [ok |-> FALSE, modelled |-> TRUE, val |-> 0]

\* The while-let loop of make_number and of make_keyword: the end index of
\* the run of characters of class that starts at index.
RECURSIVE RunEnd(_, _, _)
RunEnd(json, index, class) ==
  IF CharAt(json, index) \in class THEN RunEnd(json, index + 1, class) ELSE index

make_number(json, index) ==
  LET end == RunEnd(json, index, NumberChars)
      result == SubSeq(json, index + 1, end)
      n == ParseF64(result)
  IN  IF ~n.modelled THEN [kind |-> "Unmodelled"]
      ELSE IF n.ok THEN Scanned(Token("Number", n.val, index), end)
      ELSE Err("Invalid number", result, index)

\* A slip in the match: a keyword is taken when the run starts with it, and
\* the rest of the run is left for the next iteration.
make_keywordPrefix(json, index) ==
  LET end == RunEnd(json, index, LowerLetters)
      result == SubSeq(json, index + 1, end)
      starts(w) == Len(result) >= Len(w) /\ SubSeq(result, 1, Len(w)) = w
  IN  IF starts(<<"n", "u", "l", "l">>) THEN Scanned(Token("Null", 0, index), index + 4)
      ELSE IF starts(<<"t", "r", "u", "e">>)
        THEN Scanned(Token("Boolean", TRUE, index), index + 4)
      ELSE IF starts(<<"f", "a", "l", "s", "e">>)
        THEN Scanned(Token("Boolean", FALSE, index), index + 5)
      ELSE Err("Unexpected", result, index)

make_keyword(json, index) ==
  LET end == RunEnd(json, index, LowerLetters)
      result == SubSeq(json, index + 1, end)
  IN  IF result = <<"n", "u", "l", "l">> THEN Scanned(Token("Null", 0, index), end)
      ELSE IF result = <<"t", "r", "u", "e">>
        THEN Scanned(Token("Boolean", TRUE, index), end)
      ELSE IF result = <<"f", "a", "l", "s", "e">>
        THEN Scanned(Token("Boolean", FALSE, index), end)
      ELSE Err("Unexpected", result, index)

\* A slip at the end of make_symbol: the advance() is left out.
make_symbolStay(json, index) ==
  LET c == CharAt(json, index)
  IN  IF c = ":" THEN Scanned(Token("Colon", 0, index), index)
      ELSE IF c = "," THEN Scanned(Token("Comma", 0, index), index)
      ELSE IF c = "[" THEN Scanned(Token("LeftBracket", 0, index), index)
      ELSE IF c = "]" THEN Scanned(Token("RightBracket", 0, index), index)
      ELSE IF c = "{" THEN Scanned(Token("LeftBrace", 0, index), index)
      ELSE IF c = "}" THEN Scanned(Token("RightBrace", 0, index), index)
      ELSE IF c = NoChar THEN Scanned(Token("Eof", 0, index), index)
      ELSE Err("Unexpected", <<c>>, index)

make_symbol(json, index) ==
  LET c == CharAt(json, index)
  IN  IF c = ":" THEN Scanned(Token("Colon", 0, index), index + 1)
      ELSE IF c = "," THEN Scanned(Token("Comma", 0, index), index + 1)
      ELSE IF c = "[" THEN Scanned(Token("LeftBracket", 0, index), index + 1)
      ELSE IF c = "]" THEN Scanned(Token("RightBracket", 0, index), index + 1)
      ELSE IF c = "{" THEN Scanned(Token("LeftBrace", 0, index), index + 1)
      ELSE IF c = "}" THEN Scanned(Token("RightBrace", 0, index), index + 1)
      ELSE IF c = NoChar THEN Scanned(Token("Eof", 0, index), index + 1)
      ELSE Err("Unexpected", <<c>>, index)

\* The inner while of the whitespace arm of lex.
RECURSIVE SkipWhitespace(_, _)
SkipWhitespace(json, index) ==
  IF IsWhitespace(CharAt(json, index)) THEN SkipWhitespace(json, index + 1) ELSE index

\* The scanner lex dispatches to on character c.
Scan(json, index, c) ==
  IF c = QUOTE THEN make_string(json, index)
  ELSE IF c \in Digits \cup {"-"} THEN make_number(json, index)
  ELSE IF c \in KeywordStart THEN make_keyword(json, index)
  ELSE make_symbol(json, index)

\* The lexer between two iterations of the while-let loop of lex: the
\* tokens pushed so far and self.index.
Lexing(tokens, index) == [kind |-> "Lexing", tokens |-> tokens, index |-> index]

\* One iteration of the while-let loop of lex, entered with character c at
\* index: the match on c.
LexIteration(json, index, result) ==
  LET c == CharAt(json, index)
  IN  IF c \in {SP, TAB, LF, CR}
        THEN Lexing(result, SkipWhitespace(json, index))
      ELSE IF c = QUOTE \/ c \in Digits \cup {"-"} \/ c \in KeywordStart
              \/ c \in SymbolChars
        THEN LET r == Scan(json, index, c)
             IN  IF r.kind = "Ok"
                   THEN Lexing(Append(result, r.tok), r.index)
                   ELSE r
      ELSE Err("Unexpected", <<c>>, index)

\* The while-let loop of lex.
RECURSIVE LexLoop(_, _, _)
LexLoop(json, index, result) ==
  IF CharAt(json, index) = NoChar THEN [kind |-> "Ok", tokens |-> result]
  ELSE LET r == LexIteration(json, index, result)
       IN  IF r.kind = "Lexing" THEN LexLoop(json, r.index, r.tokens) ELSE r

\* JsonLexer::new(json).lex()
lex(json) == LexLoop(Trim(json), 0, <<>>)

(***************************************************************************)
(* JsonValue.  A value is its tag and the payload of its variant.  The     *)
(* payload of an Object is the sequence of its <<key, value>> entries in   *)
(* the order the HashMap iterates them, with pairwise distinct keys: the   *)
(* source does not determine that order, so every order is a value of the  *)
(* model, and ValEq (the derived PartialEq) does not look at it.           *)
(***************************************************************************)
Null == [tag |-> "Null"]

String(s) == [tag |-> "String", str |-> s]

Number(n) == [tag |-> "Number", num |-> n]

Boolean(b) == [tag |-> "Boolean", bool |-> b]

Array(a) == [tag |-> "Array", arr |-> a]

Object(o) == [tag |-> "Object", obj |-> o]

\* HashMap::contains_key on the entries of an Object.
ContainsKey(o, k) == \E i \in 1..Len(o) : o[i][1] = k

\* HashMap::get on the entries of an Object that holds k.
Get(o, k) == o[CHOOSE i \in 1..Len(o) : o[i][1] = k][2]

\* HashMap::insert of a key the map does not hold (parse_object has
\* checked contains_key before).
Insert(o, k, v) == Append(o, <<k, v>>)

\* #[derive(PartialEq)] of JsonValue.
RECURSIVE ValEq(_, _)
ValEq(a, b) ==
  /\ a.tag = b.tag
  /\ IF a.tag = "Array"
       THEN /\ Len(a.arr) = Len(b.arr)
            /\ \A i \in 1..Len(a.arr) : ValEq(a.arr[i], b.arr[i])
     ELSE IF a.tag = "Object"
       THEN /\ Len(a.obj) = Len(b.obj)
            /\ \A i \in 1..Len(a.obj) :
                 /\ ContainsKey(b.obj, a.obj[i][1])
                 /\ ValEq(a.obj[i][2], Get(b.obj, a.obj[i][1]))
     ELSE a = b

\* What Index::index hands back: the child it borrows.
Child(v) == [kind |-> "Ok", val |-> v]

\* A slip in the bound: the index equal to the length is let through to
\* the last member.
index_usizeInclusive(self, index) ==
  IF self.tag = "Array"
    THEN IF index < Len(self.arr) THEN Child(self.arr[index + 1])
         ELSE IF index = Len(self.arr) /\ index > 0 THEN Child(self.arr[index])
         ELSE Panic("index out of bounds")
  ELSE Panic("not an array")

\* impl Index<usize> for JsonValue: &arr[index] of a Vec panics when index
\* is not below its length.
index_usize(self, index) ==
  IF self.tag = "Array"
    THEN IF index < Len(self.arr) THEN Child(self.arr[index + 1])
         ELSE Panic("index out of bounds")
  ELSE Panic("not an array")

\* impl Index<&str> for JsonValue: &obj[key] of a HashMap panics when it
\* holds no entry for key.
index_str(self, key) ==
  IF self.tag = "Object"
    THEN IF ContainsKey(self.obj, key) THEN Child(Get(self.obj, key))
         ELSE Panic("no entry found for key")
  ELSE Panic("not an object")

(***************************************************************************)
(* JsonParser                                                              *)
(***************************************************************************)
\* Option<JsonToken>::None of JsonParser::advance / JsonParser::current.
NoToken == Token("None", 0, 0)

\* self.tokens.get(i).cloned()
TokAt(tokens, i) == IF i >= 0 /\ i < Len(tokens) THEN tokens[i + 1] ELSE NoToken

\* Ok(value), with the parser index the call leaves behind.
Parsed(v, i) == [kind |-> "Ok", val |-> v, index |-> i]

\* A slip in the bindings of parse_object: pos is the one the inner match
\* bound, the colon's.
DuplicateKeyAtColon(key, colon) == Err("Duplicate key", key.val, colon.pos)

\* The error of the contains_key branch of parse_object: val and pos are
\* those of the key token.
DuplicateKey(key, colon) == Err("Duplicate key", key.val, key.pos)

RECURSIVE parse_value(_, _)
RECURSIVE ObjectLoop(_, _, _)
RECURSIVE ArrayLoop(_, _, _)

\* A slip in the order of the checks: the key is looked up before the
\* colon is required.
ObjectLoopKeyFirst(tokens, index, result) ==
  LET i1 == index + 1
      token == TokAt(tokens, i1)
  IN  IF token.type = "None" THEN Parsed(Object(result), i1)
      ELSE IF token.type = "RightBrace" THEN Parsed(Object(result), i1)
      ELSE IF token.type = "String" THEN
        LET i2 == i1 + 1
            t2 == TokAt(tokens, i2)
        IN  IF ContainsKey(result, token.val)
              THEN DuplicateKey(token, t2)
            ELSE IF t2.type = "None" THEN Panic("unreachable")
            ELSE IF t2.type # "Colon" THEN Err("Expected ':'", <<>>, t2.pos)
            ELSE
              LET r == parse_value(tokens, i2 + 1)
              IN  IF r.kind # "Ok" THEN r
                  ELSE
                    LET inserted == Insert(result, token.val, r.val)
                        i4 == r.index + 1
                        t4 == TokAt(tokens, i4)
                    IN  IF t4.type = "Comma" THEN ObjectLoop(tokens, i4, inserted)
                        ELSE IF t4.type = "RightBrace"
                          THEN Parsed(Object(inserted), i4)
                        ELSE Err("Expected ',' or '}'", <<>>, i4)
      ELSE Err("Expected string", <<>>, token.pos)

\* The while-let loop of parse_object; index is the parser index before the
\* advance() of the loop head.
ObjectLoop(tokens, index, result) ==
  LET i1 == index + 1
      token == TokAt(tokens, i1)
  IN  IF token.type = "None" THEN Parsed(Object(result), i1)
      ELSE IF token.type = "RightBrace" THEN Parsed(Object(result), i1)
      ELSE IF token.type = "String" THEN
        LET i2 == i1 + 1
            t2 == TokAt(tokens, i2)
        IN  IF t2.type = "None" THEN Panic("unreachable")
            ELSE IF t2.type # "Colon" THEN Err("Expected ':'", <<>>, t2.pos)
            ELSE IF ContainsKey(result, token.val)
              THEN DuplicateKey(token, t2)
            ELSE
              LET r == parse_value(tokens, i2 + 1)
              IN  IF r.kind # "Ok" THEN r
                  ELSE
                    LET inserted == Insert(result, token.val, r.val)
                        i4 == r.index + 1
                        t4 == TokAt(tokens, i4)
                    IN  IF t4.type = "Comma" THEN ObjectLoop(tokens, i4, inserted)
                        ELSE IF t4.type = "RightBrace"
                          THEN Parsed(Object(inserted), i4)
                        ELSE Err("Expected ',' or '}'", <<>>, i4)
      ELSE Err("Expected string", <<>>, token.pos)

\* A slip in the scope of the map: it does not start empty but holds the
\* keys the parser has read so far, as a map kept in the parser would.
parse_objectSharedKeys(tokens, index) ==
  LET seen == SelectSeq(SubSeq(tokens, 1, index), LAMBDA t : t.type = "String")
  IN  ObjectLoop(tokens, index, [i \in 1..Len(seen) |-> <<seen[i].val, Null>>])

\* let mut result = HashMap::new(), then the loop: every invocation starts
\* from a map of its own.
parse_object(tokens, index) == ObjectLoop(tokens, index, <<>>)

\* A slip in the match after a member: the end of the tokens is taken for
\* the closing bracket.
ArrayLoopEndCloses(tokens, index, result) ==
  LET i1 == index + 1
      token == TokAt(tokens, i1)
  IN  IF token.type = "None" THEN Parsed(Array(result), i1)
      ELSE IF token.type = "RightBracket" THEN Parsed(Array(result), i1)
      ELSE IF token.type \in {"Colon", "Comma"}
        THEN Err("Expected a value", <<>>, token.pos)
      ELSE
        LET r == parse_value(tokens, i1)
        IN  IF r.kind # "Ok" THEN r
            ELSE
              LET pushed == Append(result, r.val)
                  i2 == r.index + 1
                  t2 == TokAt(tokens, i2)
              IN  IF t2.type = "Comma" THEN ArrayLoop(tokens, i2, pushed)
                  ELSE IF t2.type \in {"RightBracket", "None"}
                    THEN Parsed(Array(pushed), i2)
                  ELSE Err("Expected ',' or ']'", <<>>, i2)

\* The while-let loop of parse_array.
ArrayLoop(tokens, index, result) ==
  LET i1 == index + 1
      token == TokAt(tokens, i1)
  IN  IF token.type = "None" THEN Parsed(Array(result), i1)
      ELSE IF token.type = "RightBracket" THEN Parsed(Array(result), i1)
      ELSE IF token.type \in {"Colon", "Comma"}
        THEN Err("Expected a value", <<>>, token.pos)
      ELSE
        LET r == parse_value(tokens, i1)
        IN  IF r.kind # "Ok" THEN r
            ELSE
              LET pushed == Append(result, r.val)
                  i2 == r.index + 1
                  t2 == TokAt(tokens, i2)
              IN  IF t2.type = "Comma" THEN ArrayLoop(tokens, i2, pushed)
                  ELSE IF t2.type = "RightBracket" THEN Parsed(Array(pushed), i2)
                  ELSE Err("Expected ',' or ']'", <<>>, i2)

parse_array(tokens, index) == ArrayLoop(tokens, index, <<>>)

\* A slip in the literal arms: the parser moves past the literal it has
\* read, as the callers do after parse_value returns.
parse_valueAdvancing(tokens, index) ==
  LET t == TokAt(tokens, index)
  IN  CASE t.type = "String" -> Parsed(String(t.val), index + 1)
        [] t.type = "Number" -> Parsed(Number(t.val), index + 1)
        [] t.type = "Boolean" -> Parsed(Boolean(t.val), index + 1)
        [] t.type = "Null" -> Parsed(Null, index + 1)
        [] t.type = "LeftBrace" -> parse_object(tokens, index)
        [] t.type = "LeftBracket" -> parse_array(tokens, index)
        [] t.type = "Colon" -> Err("Unexpected ':'", <<>>, t.pos)
        [] t.type = "Comma" -> Err("Unexpected ','", <<>>, t.pos)
        [] t.type = "RightBrace" -> Err("Unexpected '}'", <<>>, t.pos)
        [] t.type = "RightBracket" -> Err("Unexpected ']'", <<>>, t.pos)
        [] t.type = "Eof" -> Err("Unexpected end of input", <<>>, t.pos)
        [] t.type = "None" -> Panic("unreachable")

parse_value(tokens, index) ==
  LET t == TokAt(tokens, index)
  IN  CASE t.type = "String" -> Parsed(String(t.val), index)
        [] t.type = "Number" -> Parsed(Number(t.val), index)
        [] t.type = "Boolean" -> Parsed(Boolean(t.val), index)
        [] t.type = "Null" -> Parsed(Null, index)
        [] t.type = "LeftBrace" -> parse_object(tokens, index)
        [] t.type = "LeftBracket" -> parse_array(tokens, index)
        [] t.type = "Colon" -> Err("Unexpected ':'", <<>>, t.pos)
        [] t.type = "Comma" -> Err("Unexpected ','", <<>>, t.pos)
        [] t.type = "RightBrace" -> Err("Unexpected '}'", <<>>, t.pos)
        [] t.type = "RightBracket" -> Err("Unexpected ']'", <<>>, t.pos)
        [] t.type = "Eof" -> Err("Unexpected end of input", <<>>, t.pos)
        [] t.type = "None" -> Panic("unreachable")

\* A parser that requires the value to end at the last token.
parseRejectTrailing(json) ==
  LET l == lex(json)
      r == parse_value(l.tokens, 0)
  IN  IF l.kind # "Ok" THEN l
      ELSE IF r.kind = "Ok" /\ r.index + 1 < Len(l.tokens)
        THEN Err("Unexpected", <<>>, l.tokens[r.index + 2].pos)
      ELSE r

\* JsonParser::new(json).parse(): lex the trimmed text, then parse one value
\* from token 0.
parse(json) ==
  LET l == lex(json)
  IN  IF l.kind # "Ok" THEN l ELSE parse_value(l.tokens, 0)

\* JSON::parse
JSON_parse(json) == parse(json)

(***************************************************************************)
(* generate_json                                                           *)
(***************************************************************************)
\* str::replace(from, to) for a one-character pattern.
RECURSIVE Replace(_, _, _)
Replace(s, from, to) ==
  IF s = <<>> THEN <<>>
  ELSE (IF Head(s) = from THEN to ELSE <<Head(s)>>) \o Replace(Tail(s), from, to)

\* A slip in the order of the chain: the backslash is replaced last, so the
\* backslashes the other replacements wrote are doubled.
EscapeStringBackslashLast(s) ==
  LET s2 == Replace(s, SLASH, <<BSLASH, SLASH>>)
      s3 == Replace(s2, QUOTE, <<BSLASH, QUOTE>>)
      s4 == Replace(s3, BS, <<BSLASH, "b">>)
      s5 == Replace(s4, FF, <<BSLASH, "f">>)
      s6 == Replace(s5, LF, <<BSLASH, "n">>)
      s7 == Replace(s6, CR, <<BSLASH, "r">>)
      s8 == Replace(s7, TAB, <<BSLASH, "t">>)
  IN  Replace(s8, BSLASH, <<BSLASH, BSLASH>>)

\* The chain of replace calls of the String arm, in the order of the source.
EscapeString(s) ==
  LET s1 == Replace(s, BSLASH, <<BSLASH, BSLASH>>)
      s2 == Replace(s1, SLASH, <<BSLASH, SLASH>>)
      s3 == Replace(s2, QUOTE, <<BSLASH, QUOTE>>)
      s4 == Replace(s3, BS, <<BSLASH, "b">>)
      s5 == Replace(s4, FF, <<BSLASH, "f">>)
      s6 == Replace(s5, LF, <<BSLASH, "n">>)
      s7 == Replace(s6, CR, <<BSLASH, "r">>)
  IN  Replace(s7, TAB, <<BSLASH, "t">>)

DigitChar(d) == <<"0", "1", "2", "3", "4", "5", "6", "7", "8", "9">>[d + 1]

RECURSIVE DecimalText(_)
DecimalText(n) ==
  IF n < 10 THEN <<DigitChar(n)>>
  ELSE Append(DecimalText(n \div 10), DigitChar(n % 10))

\* n.to_string() of an f64 that holds an integer.
NumberText(n) == IF n < 0 THEN <<"-">> \o DecimalText(0 - n) ELSE DecimalText(n)

\* b.to_string()
BooleanText(b) ==
  IF b THEN <<"t", "r", "u", "e">> ELSE <<"f", "a", "l", "s", "e">>

\* "  ".repeat(n)
RECURSIVE Indent(_)
Indent(n) == IF n <= 0 THEN <<>> ELSE <<SP, SP>> \o Indent(n - 1)

\* A slip in mode 1: the separating comma is written with the padding too.
MemberPadWithComma(pretty, level) ==
  IF pretty = 1 THEN <<",", SP>>
  ELSE IF pretty = 2 THEN <<LF>> \o Indent(level + 1)
  ELSE <<>>

\* What is pushed before each member: nothing, a space, or a newline and
\* the indentation of level + 1.
MemberPad(pretty, level) ==
  IF pretty = 1 THEN <<SP>>
  ELSE IF pretty = 2 THEN <<LF>> \o Indent(level + 1)
  ELSE <<>>

\* A slip in mode 2: the closing bracket is indented like the members.
ClosePadMemberLevel(pretty, level) ==
  IF pretty = 1 THEN <<SP>>
  ELSE IF pretty = 2 THEN <<LF>> \o Indent(level + 1)
  ELSE <<>>

\* What is pushed before the closing bracket.
ClosePad(pretty, level) ==
  IF pretty = 1 THEN <<SP>>
  ELSE IF pretty = 2 THEN <<LF>> \o Indent(level)
  ELSE <<>>

\* The text pushed after the colon of an Object entry.
ColonPad(pretty) == IF pretty \in {1, 2} THEN <<SP>> ELSE <<>>

\* The key of an Object entry as format!("\"{}\":...", k) writes it.
KeyText(k) == <<QUOTE>> \o k \o <<QUOTE>>

RECURSIVE generate_json(_, _, _)
RECURSIVE ArrayMembers(_, _, _, _)
RECURSIVE ObjectMembers(_, _, _, _)

\* The for loop of the Array arm, from member i on.
ArrayMembers(arr, i, pretty, level) ==
  IF i > Len(arr) THEN <<>>
  ELSE MemberPad(pretty, level)
         \o generate_json(arr[i], pretty, level + 1)
         \o (IF i < Len(arr) THEN <<",">> ELSE <<>>)
         \o ArrayMembers(arr, i + 1, pretty, level)

\* The for loop of the Object arm, from entry i on.
ObjectMembers(obj, i, pretty, level) ==
  IF i > Len(obj) THEN <<>>
  ELSE MemberPad(pretty, level)
         \o KeyText(obj[i][1]) \o <<":">> \o ColonPad(pretty)
         \o generate_json(obj[i][2], pretty, level + 1)
         \o (IF i < Len(obj) THEN <<",">> ELSE <<>>)
         \o ObjectMembers(obj, i + 1, pretty, level)

generate_json(val, pretty, level) ==
  CASE val.tag = "Null" -> <<"n", "u", "l", "l">>
    [] val.tag = "String" -> <<QUOTE>> \o EscapeString(val.str) \o <<QUOTE>>
    [] val.tag = "Number" -> NumberText(val.num)
    [] val.tag = "Boolean" -> BooleanText(val.bool)
    [] val.tag = "Array" ->
         IF val.arr = <<>> THEN <<"[", "]">>
         ELSE <<"[">> \o ArrayMembers(val.arr, 1, pretty, level)
                \o ClosePad(pretty, level) \o <<"]">>
    [] val.tag = "Object" ->
         IF val.obj = <<>> THEN <<"{", "}">>
         ELSE <<"{">> \o ObjectMembers(val.obj, 1, pretty, level)
                \o ClosePad(pretty, level) \o <<"}">>

\* JSON::stringify
JSON_stringify(value, pretty) == generate_json(value, pretty, 0)

(***************************************************************************)
(* The calls a program makes: it assembles a JsonValue or a text, hands    *)
(* the value to JSON::stringify, the text to JSON::parse, and what parse   *)
(* returned to JSON::stringify again.                                      *)
(***************************************************************************)
VARIABLES
  pc,      \* "value": a value is held; "text": a text is held; "parsed"; "again"
  value,   \* the JsonValue the caller assembles and hands to JSON::stringify
  pretty,  \* the formatting mode of the stringify call
  json,    \* the text handed to JSON::parse
  result,  \* what JSON::parse returned
  again,   \* the text of JSON::stringify(result, pretty)
  built,   \* the size of what was assembled: nodes of value, pieces of json
  members, \* the Object members written into json: decoded key, key offset
  operand  \* the index or key the caller indexes value with

vars == <<pc, value, pretty, json, result, again, built, members, operand>>

NoValue == [tag |-> "None"]

NoResult == [kind |-> "None"]

NoOperand == [by |-> "None"]

\* pretty: 0 for no whitespace, 1 for spaces, 2 for newlines.
Modes == {0, 1, 2}

RECURSIVE ObjectFree(_)
ObjectFree(v) ==
  /\ v.tag # "Object"
  /\ v.tag = "Array" => \A i \in 1..Len(v.arr) : ObjectFree(v.arr[i])

\* JsonValue::Array(vec![value])
NestArray(max) ==
  /\ pc = "value"
  /\ built < max
  /\ value.tag # "None"
  /\ value' = Array(<<value>>)
  /\ built' = built + 1
  /\ UNCHANGED <<pc, pretty, json, result, again, members, operand>>

\* JsonValue::Object(HashMap::from([(k, value)]))
NestObject(keys, max) ==
  /\ pc = "value"
  /\ built < max
  /\ value.tag # "None"
  /\ \E k \in keys : value' = Object(<<<<k, value>>>>)
  /\ built' = built + 1
  /\ UNCHANGED <<pc, pretty, json, result, again, members, operand>>

\* A member x is added to the Vec of an Array, at either end.
Push(xs, max) ==
  /\ pc = "value"
  /\ built < max
  /\ value.tag = "Array"
  /\ \E x \in xs :
       \/ value' = Array(Append(value.arr, x))
       \/ value' = Array(<<x>> \o value.arr)
  /\ built' = built + 1
  /\ UNCHANGED <<pc, pretty, json, result, again, members, operand>>

\* An entry of a new key is added to the HashMap of an Object; it may come
\* anywhere in the iteration order, and adding at either end gives every
\* order.
InsertEntry(xs, keys, max) ==
  /\ pc = "value"
  /\ built < max
  /\ value.tag = "Object"
  /\ \E x \in xs, k \in keys :
       /\ ~ContainsKey(value.obj, k)
       /\ \/ value' = Object(Append(value.obj, <<k, x>>))
          \/ value' = Object(<<<<k, x>>>> \o value.obj)
  /\ built' = built + 1
  /\ UNCHANGED <<pc, pretty, json, result, again, members, operand>>

\* json := JSON::stringify(value, m)
Stringify ==
  /\ pc = "value"
  /\ value.tag # "None"
  /\ \E m \in Modes :
       /\ json' = JSON_stringify(value, m)
       /\ pretty' = m
  /\ pc' = "text"
  /\ UNCHANGED <<value, result, again, built, members, operand>>

\* result := JSON::parse(json)
Parse ==
  /\ pc = "text"
  /\ result' = JSON_parse(json)
  /\ pc' = "parsed"
  /\ UNCHANGED <<value, pretty, json, again, built, members, operand>>

\* again := JSON::stringify(result?, pretty).  The order in which the
\* HashMap of a parsed Object iterates is not fixed by the source, so the
\* call is modelled for the results that hold no Object.
Restringify ==
  /\ pc = "parsed"
  /\ result.kind = "Ok"
  /\ ObjectFree(result.val)
  /\ again' = JSON_stringify(result.val, pretty)
  /\ pc' = "again"
  /\ UNCHANGED <<value, pretty, json, result, built, members, operand>>

(***************************************************************************)
(* Spec: a value of at most MaxNodes nodes is assembled, serialised under  *)
(* some mode, the text parsed and the result serialised again.             *)
(***************************************************************************)
MaxNodes == 4

Leaves ==
  {Null, Boolean(TRUE), Boolean(FALSE), Number(0 - 12),
   String(<<"a", SP>>), String(<<QUOTE, BSLASH>>)}

Keys == {<<"k", SP>>, <<QUOTE>>, <<BSLASH>>}

\* What a one-node value can be.
Members == Leaves \cup {Array(<<>>), Object(<<>>)}

InitValue(V) ==
  /\ pc = "value"
  /\ value \in V
  /\ pretty = 0
  /\ json = <<>>
  /\ result = NoResult
  /\ again = <<>>
  /\ built = 1
  /\ members = <<>>
  /\ operand = NoOperand

Init == InitValue(Members)

Next ==
  \/ NestArray(MaxNodes)
  \/ NestObject(Keys, MaxNodes)
  \/ Push(Members, MaxNodes)
  \/ InsertEntry(Members, Keys, MaxNodes)
  \/ Stringify
  \/ Parse
  \/ Restringify

Spec == Init /\ [][Next]_vars


(***************************************************************************)
(* SpecString: a String of at most MaxStrLen characters is assembled,      *)
(* serialised, parsed and serialised again.                                *)
(***************************************************************************)
MaxStrLen == 3

\* The characters the serializer escapes, the letters that follow a
\* backslash in an escape, and ordinary characters.
StringAlphabet ==
  {BSLASH, SLASH, QUOTE, BS, FF, LF, CR, TAB,
   "b", "f", "n", "r", "t", "u", "a", SP}

\* s.push(c) on the String the caller assembles.
AppendChar(alphabet, max) ==
  /\ pc = "value"
  /\ value.tag = "String"
  /\ Len(value.str) < max
  /\ \E c \in alphabet : value' = String(Append(value.str, c))
  /\ UNCHANGED <<pc, pretty, json, result, again, built, members, operand>>

NextString ==
  \/ AppendChar(StringAlphabet, MaxStrLen)
  \/ Stringify
  \/ Parse
  \/ Restringify

SpecString == InitValue({String(<<>>)}) /\ [][NextString]_vars

(***************************************************************************)
(* Properties of Spec and SpecString                                       *)
(***************************************************************************)
\* No input of the model leaves what the model covers (see ParseF64).
InputsModelled == result.kind # "Unmodelled"

\* C1 (as claimed): for every value and every mode, parsing the text that
\* stringify wrote returns Ok of a value equal to the one serialised.
C1_RoundTripEveryMode ==
  pc = "parsed" => result.kind = "Ok" /\ ValEq(result.val, value)

RECURSIVE PlainKeys(_)
PlainKeys(v) ==
  CASE v.tag = "Array" -> \A i \in 1..Len(v.arr) : PlainKeys(v.arr[i])
    [] v.tag = "Object" ->
         \A i \in 1..Len(v.obj) :
           /\ \A j \in 1..Len(v.obj[i][1]) : v.obj[i][1][j] \notin {QUOTE, BSLASH}
           /\ PlainKeys(v.obj[i][2])
    [] OTHER -> TRUE

\* The part of C1 that holds: the round trip of the values none of whose
\* keys holds a double quote or a backslash.
RoundTripWithPlainKeys ==
  (pc = "parsed" /\ PlainKeys(value)) =>
    result.kind = "Ok" /\ ValEq(result.val, value)

\* The text without its whitespace characters.
StripWhitespace(t) == SelectSeq(t, LAMBDA c : ~IsWhitespace(c))

RECURSIVE NoWhitespaceIn(_)
NoWhitespaceIn(v) ==
  CASE v.tag = "String" -> \A i \in 1..Len(v.str) : ~IsWhitespace(v.str[i])
    [] v.tag = "Array" -> \A i \in 1..Len(v.arr) : NoWhitespaceIn(v.arr[i])
    [] v.tag = "Object" ->
         \A i \in 1..Len(v.obj) :
           /\ \A j \in 1..Len(v.obj[i][1]) : ~IsWhitespace(v.obj[i][1][j])
           /\ NoWhitespaceIn(v.obj[i][2])
    [] OTHER -> TRUE

\* The value is a non-empty Array or Object and json is its text under mode
\* 1 or 2.
PrettyCollection ==
  /\ pc = "text"
  /\ pretty \in {1, 2}
  /\ \/ value.tag = "Array" /\ value.arr # <<>>
     \/ value.tag = "Object" /\ value.obj # <<>>

\* C6 (as claimed): for every non-empty Array or Object, the text of mode 1
\* and of mode 2 without its whitespace is the text of mode 0.
C6_StrippedIsCompact ==
  PrettyCollection => StripWhitespace(json) = JSON_stringify(value, 0)

\* C6 (amended): for every non-empty Array or Object, the text of mode 1 and
\* of mode 2 without its whitespace is the text of mode 0 without its
\* whitespace, and that is the text of mode 0 itself when no String and no
\* key of the value holds a whitespace character.
C6_StrippedIsStrippedCompact ==
  PrettyCollection =>
    /\ StripWhitespace(json) = StripWhitespace(JSON_stringify(value, 0))
    /\ NoWhitespaceIn(value) =>
         StripWhitespace(json) = JSON_stringify(value, 0)

\* C6 witness: a nested Object with a space in a String or key, serialised
\* under mode 2.
C6_Witness ==
  /\ PrettyCollection
  /\ pretty = 2
  /\ value.tag = "Object"
  /\ ~NoWhitespaceIn(value)
  /\ \E i \in 1..Len(value.obj) :
       value.obj[i][2].tag = "Array" /\ value.obj[i][2].arr # <<>>

\* No whitespace character of t from position i on lies outside a string
\* literal; inStr tells whether position i is inside one.
RECURSIVE NoWhitespaceOutsideStrings(_, _, _)
NoWhitespaceOutsideStrings(t, i, inStr) ==
  IF i > Len(t) THEN TRUE
  ELSE IF inStr THEN
    IF t[i] = BSLASH THEN NoWhitespaceOutsideStrings(t, i + 2, TRUE)
    ELSE NoWhitespaceOutsideStrings(t, i + 1, t[i] # QUOTE)
  ELSE /\ ~IsWhitespace(t[i])
       /\ NoWhitespaceOutsideStrings(t, i + 1, t[i] = QUOTE)

\* C10: for every object-free value, with json its text under mode 0, parse
\* returns Ok, serialising the result under mode 0 gives json again, and
\* json holds no whitespace outside its string literals.
C10_CompactIsExact ==
  (pc \in {"parsed", "again"} /\ pretty = 0 /\ ObjectFree(value)) =>
    /\ result.kind = "Ok"
    /\ pc = "again" => again = json
    /\ NoWhitespaceOutsideStrings(json, 1, FALSE)

\* C10 witness: an Array that holds a non-empty Array and a String with a
\* space went through stringify, parse and stringify under mode 0.
C10_Witness ==
  /\ pc = "again"
  /\ pretty = 0
  /\ value.tag = "Array"
  /\ \E i, j \in 1..Len(value.arr) :
       /\ value.arr[i].tag = "Array" /\ value.arr[i].arr # <<>>
       /\ value.arr[j] = String(<<"a", SP>>)
  /\ again = json

\* The characters of StringAlphabet that the serializer escapes.
EscapedChars == {BSLASH, SLASH, QUOTE, BS, FF, LF, CR, TAB}

\* C8: for every String over StringAlphabet, parsing its text under mode 0
\* returns Ok of the same String, and the text holds two characters for
\* each escaped character, one for every other, and the two quotes.
C8_StringRoundTrip ==
  (pc \in {"parsed", "again"} /\ pretty = 0 /\ value.tag = "String") =>
    /\ result.kind = "Ok"
    /\ result.val = value
    /\ Len(json) = 2 + Len(value.str)
         + Cardinality({i \in 1..Len(value.str) : value.str[i] \in EscapedChars})

\* C8 witness: a backslash followed by the letter n, then a newline, was
\* serialised and parsed back.
C8_Witness ==
  /\ pc = "parsed"
  /\ pretty = 0
  /\ value = String(<<BSLASH, "n", LF>>)
  /\ result.kind = "Ok"


(***************************************************************************)
(* SpecText: a text of at most MaxPieces pieces is assembled and parsed.   *)
(***************************************************************************)
MaxPieces == 4

\* The pieces a text is assembled from: lexemes, a key with its colon, and
\* the characters that start a string, an escape and a number.
Pieces ==
  {<<"t", "r", "u", "e">>, <<"g", "a", "r", "b", "a", "g", "e">>,
   <<"[">>, <<"]">>, <<"{">>, <<"}">>, <<",">>, <<SP>>,
   <<QUOTE, "a", QUOTE>>, <<QUOTE, "a", QUOTE, ":">>,
   <<"1">>, <<"-">>, <<QUOTE>>, <<BSLASH>>, <<"u">>}

\* json.push_str(piece) on the text the caller assembles.
AppendPiece(pieces, max) ==
  /\ pc = "text"
  /\ built < max
  /\ \E piece \in pieces : json' = json \o piece
  /\ built' = built + 1
  /\ UNCHANGED <<pc, value, pretty, result, again, members, operand>>

InitText ==
  /\ pc = "text"
  /\ value = NoValue
  /\ pretty = 0
  /\ json = <<>>
  /\ result = NoResult
  /\ again = <<>>
  /\ built = 0
  /\ members = <<>>
  /\ operand = NoOperand

NextText ==
  \/ AppendPiece(Pieces, MaxPieces)
  \/ Parse

SpecText == InitText /\ [][NextText]_vars

(***************************************************************************)
(* Properties of SpecText                                                  *)
(***************************************************************************)
\* The text holds no backslash directly followed by the letter u.
NoUnicodeEscape(t) ==
  \A i \in 1..(Len(t) - 1) : ~(t[i] = BSLASH /\ t[i + 1] = "u")

\* C2 (as claimed): for every text without a \u escape, parse returns Ok or
\* Err; it never ends in a panic.
C2_ParseIsTotal ==
  (pc = "parsed" /\ NoUnicodeEscape(json)) => result.kind \in {"Ok", "Err"}

\* C7 (as claimed): when the trimmed text is empty, parse returns the error
\* 'Unexpected end of input'.
C7_EmptyInputIsEofError ==
  (pc = "parsed" /\ Trim(json) = <<>>) =>
    result.kind = "Err" /\ result.message = "Unexpected end of input"

\* The text t from character index i on starts with the characters w.
StartsWithAt(t, i, w) ==
  i + Len(w) <= Len(t) /\ SubSeq(t, i + 1, i + Len(w)) = w

\* Some token that starts at character offset p is of one of the types.
TokenAt(tokens, p, types) ==
  \E i \in 1..Len(tokens) : tokens[i].pos = p /\ tokens[i].type \in types

TokenTypes ==
  {"Null", "String", "Number", "Boolean", "Colon", "Comma", "LeftBracket",
   "RightBracket", "LeftBrace", "RightBrace", "Eof"}

\* The types of the tokens that make the parser report message m.
Offenders(m) ==
  CASE m = "Expected ':'" -> TokenTypes \ {"Colon"}
    [] m = "Expected ',' or '}'" -> TokenTypes \ {"Comma", "RightBrace"}
    [] m = "Expected ',' or ']'" -> TokenTypes \ {"Comma", "RightBracket"}
    [] m = "Expected a value" -> {"Colon", "Comma"}
    [] m = "Expected string" -> TokenTypes \ {"String", "RightBrace"}
    [] m = "Duplicate key" -> {"String"}
    [] m = "Unexpected ':'" -> {"Colon"}
    [] m = "Unexpected ','" -> {"Comma"}
    [] m = "Unexpected '}'" -> {"RightBrace"}
    [] m = "Unexpected ']'" -> {"RightBracket"}
    [] m = "Unexpected end of input" -> {"Eof"}

\* The index of error e is a character offset into the trimmed text t: of
\* the offending character, or of the start of the offending token (the end
\* of the text when what is missing is a token).
IndexIsOffendingOffset(t, e) ==
  LET l == lex(t)
  IN  IF l.kind # "Ok" THEN
        CASE e.message \in {"Unexpected", "Invalid number"} ->
               e.arg # <<>> /\ StartsWithAt(t, e.index, e.arg)
          [] e.message = "Invalid escape sequence" ->
               StartsWithAt(t, e.index, <<BSLASH>> \o e.arg)
          [] e.message = "Unexpected end of string" -> e.index = Len(t)
      ELSE \/ TokenAt(l.tokens, e.index, Offenders(e.message))
           \/ /\ e.message \in {"Expected ',' or '}'", "Expected ',' or ']'"}
              /\ e.index = Len(t)

\* C5 (as claimed): every Err of parse carries the character offset, in the
\* trimmed text, of the offending character or of the start of the
\* offending token.
C5_ErrorIndexIsCharOffset ==
  (pc = "parsed" /\ result.kind = "Err") =>
    IndexIsOffendingOffset(Trim(json), result)

\* The part of C5 that holds: every error other than the two raised after a
\* member carries the offset of the offending character or token.
ErrorIndexIsCharOffsetElsewhere ==
  (/\ pc = "parsed"
   /\ result.kind = "Err"
   /\ result.message \notin {"Expected ',' or '}'", "Expected ',' or ']'"}) =>
    IndexIsOffendingOffset(Trim(json), result)

\* The first k characters of t.
Prefix(t, k) == SubSeq(t, 1, k)

\* p is the mode 0 text of a value: it parses, and the value it parses to
\* is written back as p.
CompleteValueText(p) ==
  LET r == JSON_parse(p)
  IN  r.kind = "Ok" /\ JSON_stringify(r.val, 0) = p

\* The value text that ends at character k of t is not continued by
\* character k + 1: it ends with a quote or a bracket, or what follows is
\* neither a letter nor a number character.
Delimited(t, k) ==
  \/ k = Len(t)
  \/ t[k] \in {QUOTE, "]", "}"}
  \/ t[k + 1] \notin (LowerLetters \cup NumberChars)

\* C4 (as claimed): when the trimmed text starts with a complete value,
\* parse returns Ok of that value whatever follows it.
C4_TrailingContentIgnored ==
  pc = "parsed" =>
    LET t == Trim(json)
    IN  \A k \in 1..Len(t) :
          (CompleteValueText(Prefix(t, k)) /\ Delimited(t, k)) =>
            /\ result.kind = "Ok"
            /\ ValEq(result.val, JSON_parse(Prefix(t, k)).val)

\* Two tokens are the same token.
SameToken(a, b) ==
  /\ a.type = b.type
  /\ a.pos = b.pos
  /\ a.val = b.val

\* The token sequence ts starts with the token sequence ps.
TokensStartWith(ts, ps) ==
  /\ Len(ps) <= Len(ts)
  /\ \A i \in 1..Len(ps) : SameToken(ts[i], ps[i])

\* C4 (amended): the whole trimmed text is lexed first.  When it lexes
\* without error and its tokens start with the tokens of a complete value,
\* parse returns Ok of that value and ignores the tokens that follow; when
\* the text after a complete value holds a lexical error, parse returns
\* that error.
C4_TrailingTokensIgnored ==
  pc = "parsed" =>
    LET t == Trim(json)
        l == lex(t)
    IN  \A k \in 1..Len(t) :
          CompleteValueText(Prefix(t, k)) =>
            /\ (l.kind = "Ok" /\ TokensStartWith(l.tokens, lex(Prefix(t, k)).tokens)) =>
                 /\ result.kind = "Ok"
                 /\ ValEq(result.val, JSON_parse(Prefix(t, k)).val)
            /\ l.kind = "Err" => result = l

\* C4 witness: the text [1]true was parsed to the Array [1], the token
\* true after it ignored.
C4_Witness ==
  /\ pc = "parsed"
  /\ json = <<"[", "1", "]", "t", "r", "u", "e">>
  /\ result.kind = "Ok"
  /\ result.val = Array(<<Number(1)>>)

\* C15 (as claimed): a closing bracket is accepted only directly after the
\* opening bracket or after a member, never after a comma: whenever parse
\* returns Ok, no comma among the tokens it consumed is directly followed
\* by a closing bracket (a text such as [1,] is rejected).
C15_NoTrailingComma ==
  (pc = "parsed" /\ result.kind = "Ok") =>
    LET tokens == lex(json).tokens
    IN  \A i \in 1..(Len(tokens) - 1) :
          (i <= result.index /\ tokens[i].type = "Comma") =>
            tokens[i + 1].type \notin {"RightBracket", "RightBrace"}


(***************************************************************************)
(* SpecObject: the text of an Object of at most MaxMembers members is      *)
(* assembled member by member, closed, wrapped and parsed.  members        *)
(* records, for each member, the text its key lexeme decodes to and the    *)
(* character offset of the opening quote of the key.                       *)
(***************************************************************************)
MaxMembers == 3

\* Key lexemes with the text they decode to; the last two decode to the
\* same key.
KeyLexemes ==
  {[lexeme |-> <<QUOTE, "a", QUOTE>>, decoded |-> <<"a">>],
   [lexeme |-> <<QUOTE, BSLASH, SLASH, QUOTE>>, decoded |-> <<SLASH>>],
   [lexeme |-> <<QUOTE, SLASH, QUOTE>>, decoded |-> <<SLASH>>]}

\* Member values: a number, and an Object that uses the key a itself.
ValueTexts == {<<"1">>, <<"{", QUOTE, "a", QUOTE, ":", "2", "}">>}

\* What may stand before a key.
KeyPads == {<<>>, <<SP>>}

\* What the Object may be wrapped in: nothing, an Array, an Object that
\* uses the key a itself.
Wrappers ==
  {[open |-> <<>>, close |-> <<>>],
   [open |-> <<"[">>, close |-> <<"]">>],
   [open |-> <<"{", QUOTE, "a", QUOTE, ":">>, close |-> <<"}">>]}

\* What may stand before the text; JsonParser::new trims it away.
Leads == {<<>>, <<SP, LF>>}

\* A member is written into the text.
AppendMember(keys, values, max) ==
  /\ pc = "members"
  /\ built < max
  /\ \E k \in keys, v \in values, pad \in KeyPads :
       LET sep == IF built > 0 THEN <<",">> ELSE <<>>
       IN  /\ json' = json \o sep \o pad \o k.lexeme \o <<":">> \o v
           /\ members' = Append(members,
                           [key |-> k.decoded, at |-> Len(json) + Len(sep) + Len(pad)])
  /\ built' = built + 1
  /\ UNCHANGED <<pc, value, pretty, result, again, operand>>

\* The Object is closed and wrapped; the offsets of the keys move by the
\* length of what the wrapper opens with.
CloseObject ==
  /\ pc = "members"
  /\ \E w \in Wrappers, lead \in Leads :
       /\ json' = lead \o w.open \o json \o <<"}">> \o w.close
       /\ members' = [i \in 1..Len(members) |->
                        [key |-> members[i].key, at |-> members[i].at + Len(w.open)]]
  /\ pc' = "text"
  /\ UNCHANGED <<value, pretty, result, again, built, operand>>

InitObject ==
  /\ pc = "members"
  /\ value = NoValue
  /\ pretty = 0
  /\ json = <<"{">>
  /\ result = NoResult
  /\ again = <<>>
  /\ built = 0
  /\ members = <<>>
  /\ operand = NoOperand

NextObject ==
  \/ AppendMember(KeyLexemes, ValueTexts, MaxMembers)
  \/ CloseObject
  \/ Parse

SpecObject == InitObject /\ [][NextObject]_vars

(***************************************************************************)
(* Properties of SpecObject                                                *)
(***************************************************************************)
\* Member j repeats the key of an earlier member.
Repeats(j) == \E i \in 1..(j - 1) : members[i].key = members[j].key

\* C3: when a key of the Object repeats the decoded text of an earlier key
\* of the same Object, parse returns the error 'Duplicate key' for the
\* first such key, its index the character offset, in the trimmed text, of
\* the opening quote of that key; when parse returns Ok no key repeats.
C3_DuplicateKeyRejected ==
  pc = "parsed" =>
    /\ \A j \in 1..Len(members) :
         (Repeats(j) /\ \A i \in 1..(j - 1) : ~Repeats(i)) =>
           result = Err("Duplicate key", members[j].key, members[j].at)
    /\ result.kind = "Ok" => \A j \in 1..Len(members) : ~Repeats(j)

\* C3 witness: after leading whitespace, the third key of an Object repeats
\* the first under another lexeme, and parse reported it at its quote.
C3_Witness ==
  /\ pc = "parsed"
  /\ Len(members) = 3
  /\ IsWhitespace(json[1])
  /\ members[3].key = members[1].key
  /\ members[2].key # members[1].key
  /\ json[Len(json) - Len(Trim(json)) + members[3].at + 2] = SLASH
  /\ json[Len(json) - Len(Trim(json)) + members[1].at + 2] = BSLASH
  /\ result.kind = "Err"
  /\ result.message = "Duplicate key"
  /\ result.index = members[3].at


(***************************************************************************)
(* SpecWellFormed: a value of at most MaxNodesWF nodes is assembled,       *)
(* written as well-formed JSON text (keys escaped like Strings, members    *)
(* separated by commas, optionally a space between any two tokens) and     *)
(* parsed.                                                                 *)
(***************************************************************************)
MaxNodesWF == 4

LeavesWF == {Null, Boolean(FALSE), Number(0 - 12), String(<<"a", QUOTE>>)}

KeysWF == {<<"k">>, <<QUOTE, BSLASH, "n">>}

MembersWF == LeavesWF \cup {Array(<<>>), Object(<<>>)}

\* What may stand between two tokens.
Gaps == {<<>>, <<SP>>}

RECURSIVE WellFormed(_, _)
RECURSIVE WellFormedArray(_, _, _)
RECURSIVE WellFormedObject(_, _, _)

\* The members of arr from member i on, each followed by a comma or by the
\* closing bracket.
WellFormedArray(arr, i, gap) ==
  IF i > Len(arr) THEN <<"]">>
  ELSE WellFormed(arr[i], gap) \o gap
         \o (IF i < Len(arr) THEN <<",">> \o gap ELSE <<>>)
         \o WellFormedArray(arr, i + 1, gap)

WellFormedObject(obj, i, gap) ==
  IF i > Len(obj) THEN <<"}">>
  ELSE <<QUOTE>> \o EscapeString(obj[i][1]) \o <<QUOTE>> \o gap \o <<":">> \o gap
         \o WellFormed(obj[i][2], gap) \o gap
         \o (IF i < Len(obj) THEN <<",">> \o gap ELSE <<>>)
         \o WellFormedObject(obj, i + 1, gap)

\* The well-formed text of value v with gap between any two tokens.
WellFormed(v, gap) ==
  CASE v.tag = "Null" -> <<"n", "u", "l", "l">>
    [] v.tag = "String" -> <<QUOTE>> \o EscapeString(v.str) \o <<QUOTE>>
    [] v.tag = "Number" -> NumberText(v.num)
    [] v.tag = "Boolean" -> BooleanText(v.bool)
    [] v.tag = "Array" -> <<"[">> \o gap \o WellFormedArray(v.arr, 1, gap)
    [] v.tag = "Object" -> <<"{">> \o gap \o WellFormedObject(v.obj, 1, gap)

\* The number of tokens of the well-formed text of v.
RECURSIVE TokenCount(_)
RECURSIVE TokenCountAll(_, _)
TokenCountAll(vs, i) ==
  IF i > Len(vs) THEN 0 ELSE TokenCount(vs[i]) + TokenCountAll(vs, i + 1)

TokenCount(v) ==
  CASE v.tag = "Array" ->
         IF v.arr = <<>> THEN 2
         ELSE 2 + TokenCountAll(v.arr, 1) + (Len(v.arr) - 1)
    [] v.tag = "Object" ->
         IF v.obj = <<>> THEN 2
         ELSE 2 + 2 * Len(v.obj)
                + TokenCountAll([i \in 1..Len(v.obj) |-> v.obj[i][2]], 1)
                + (Len(v.obj) - 1)
    [] OTHER -> 1

\* json := the well-formed text of value
WriteWellFormed ==
  /\ pc = "value"
  /\ \E gap \in Gaps : json' = WellFormed(value, gap)
  /\ pc' = "text"
  /\ UNCHANGED <<value, pretty, result, again, built, members, operand>>

InitWellFormed == InitValue(MembersWF)

NextWellFormed ==
  \/ NestArray(MaxNodesWF)
  \/ NestObject(KeysWF, MaxNodesWF)
  \/ Push(MembersWF, MaxNodesWF)
  \/ InsertEntry(MembersWF, KeysWF, MaxNodesWF)
  \/ WriteWellFormed
  \/ Parse

SpecWellFormed == InitWellFormed /\ [][NextWellFormed]_vars

(***************************************************************************)
(* Properties of SpecWellFormed                                            *)
(***************************************************************************)
\* C9: for every well-formed text, parse returns Ok of the value written:
\* each literal as its variant, each Array with its members in order, each
\* Object with exactly its keys and their values; and the parser ends on
\* the last token, every nested closing bracket consumed by the structure
\* it closes.
C9_TreeConstruction ==
  pc = "parsed" =>
    /\ result.kind = "Ok"
    /\ ValEq(result.val, value)
    /\ ValEq(value, result.val)
    /\ result.index = TokenCount(value) - 1
    /\ lex(json).kind = "Ok"
    /\ Len(lex(json).tokens) = TokenCount(value)

\* C9 witness: an Array whose first member is a non-empty Array or Object
\* and whose second member is a Number was parsed back.
C9_Witness ==
  /\ pc = "parsed"
  /\ result.kind = "Ok"
  /\ value.tag = "Array"
  /\ Len(value.arr) = 2
  /\ \/ value.arr[1].tag = "Array" /\ Len(value.arr[1].arr) = 1
     \/ value.arr[1].tag = "Object" /\ Len(value.arr[1].obj) = 1
  /\ value.arr[2].tag = "Number"
  /\ result.val.arr[2] = value.arr[2]


(***************************************************************************)
(* SpecIndex: a value of at most MaxNodesIx nodes is assembled and indexed *)
(* by an integer or by a key.                                              *)
(***************************************************************************)
MaxNodesIx == 3

LeavesIx == {Null, Number(7), String(<<"a">>)}

KeysIx == {<<"a">>, <<"b">>}

MembersIx == LeavesIx \cup {Array(<<>>), Object(<<>>)}

\* The keys the caller may ask for; the last is the key of no entry.
AskedKeys == KeysIx \cup {<<"c">>}

\* result := value[index]
IndexUsize(max) ==
  /\ pc = "value"
  /\ \E index \in 0..max :
       /\ operand' = [by |-> "usize", index |-> index]
       /\ result' = index_usize(value, index)
  /\ pc' = "indexed"
  /\ UNCHANGED <<value, pretty, json, again, built, members>>

\* result := value[key]
IndexStr(keys) ==
  /\ pc = "value"
  /\ \E key \in keys :
       /\ operand' = [by |-> "str", key |-> key]
       /\ result' = index_str(value, key)
  /\ pc' = "indexed"
  /\ UNCHANGED <<value, pretty, json, again, built, members>>

InitIndex == InitValue(MembersIx)

NextIndex ==
  \/ NestArray(MaxNodesIx)
  \/ NestObject(KeysIx, MaxNodesIx)
  \/ Push(MembersIx, MaxNodesIx)
  \/ InsertEntry(MembersIx, KeysIx, MaxNodesIx)
  \/ IndexUsize(MaxNodesIx)
  \/ IndexStr(AskedKeys)

SpecIndex == InitIndex /\ [][NextIndex]_vars

(***************************************************************************)
(* Properties of SpecIndex                                                 *)
(***************************************************************************)
\* The entries of Object v under key k.
EntriesOf(v, k) == {i \in 1..Len(v.obj) : v.obj[i][1] = k}

\* What the indexing call of the state must have handed back.
IndexOutcomeAsClaimed ==
  IF operand.by = "usize"
    THEN /\ value.tag # "Array" => result = Panic("not an array")
         /\ (value.tag = "Array" /\ operand.index >= Len(value.arr)) =>
              result = Panic("index out of bounds")
         /\ (value.tag = "Array" /\ operand.index < Len(value.arr)) =>
              result.kind = "Ok" /\ result.val = value.arr[operand.index + 1]
    ELSE /\ value.tag # "Object" => result = Panic("not an object")
         /\ (value.tag = "Object" /\ EntriesOf(value, operand.key) = {}) =>
              result = Panic("no entry found for key")
         /\ (value.tag = "Object" /\ EntriesOf(value, operand.key) # {}) =>
              /\ result.kind = "Ok"
              /\ \E i \in EntriesOf(value, operand.key) : result.val = value.obj[i][2]

\* C11: indexing by integer faults with 'not an array' on a value that is
\* not an Array and with an out-of-bounds fault when the index is not below
\* the length; indexing by key faults with 'not an object' on a value that
\* is not an Object and with a missing-entry fault when the key is absent;
\* otherwise the call hands back the stored child; and no indexing call
\* changes the value.
C11_IndexingFaults ==
  /\ [](pc = "indexed" => IndexOutcomeAsClaimed)
  /\ [][pc' = "indexed" => value' = value]_vars

\* C11 witness: index 1 of an Array of two different members handed back
\* the second.
C11_Witness ==
  /\ pc = "indexed"
  /\ operand.by = "usize"
  /\ value.tag = "Array"
  /\ Len(value.arr) = 2
  /\ operand.index = 1
  /\ result.kind = "Ok"
  /\ result.val = value.arr[2]
  /\ value.arr[1] # value.arr[2]


(***************************************************************************)
(* SpecTruncated: a value of at most MaxNodesT nodes is assembled, written *)
(* as well-formed text, the text cut after one of its tokens, and parsed.  *)
(***************************************************************************)
MaxNodesT == 3

LeavesT == {Null, Number(1), String(<<"a">>)}

KeysT == {<<"a">>, <<"b">>}

MembersT == LeavesT \cup {Array(<<>>), Object(<<>>)}

\* json.truncate(n): the text is cut where one of its tokens starts, at
\* least one token kept.
Truncate ==
  /\ pc = "text"
  /\ LET tokens == lex(json).tokens
     IN  \E k \in 2..Len(tokens) : json' = Prefix(json, tokens[k].pos)
  /\ UNCHANGED <<pc, value, pretty, result, again, built, members, operand>>

InitTruncated == InitValue(MembersT)

NextTruncated ==
  \/ NestArray(MaxNodesT)
  \/ NestObject(KeysT, MaxNodesT)
  \/ Push(MembersT, MaxNodesT)
  \/ InsertEntry(MembersT, KeysT, MaxNodesT)
  \/ WriteWellFormed
  \/ Truncate
  \/ Parse

SpecTruncated == InitTruncated /\ [][NextTruncated]_vars

(***************************************************************************)
(* Properties of SpecTruncated                                             *)
(***************************************************************************)
\* The opening brackets of tokens i.. that are not closed, outermost first,
\* on top of stack.
RECURSIVE OpenStack(_, _, _)
OpenStack(tokens, i, stack) ==
  IF i > Len(tokens) THEN stack
  ELSE OpenStack(tokens, i + 1,
         IF tokens[i].type \in {"LeftBracket", "LeftBrace"}
           THEN Append(stack, tokens[i].type)
         ELSE IF tokens[i].type \in {"RightBracket", "RightBrace"}
           THEN SubSeq(stack, 1, Len(stack) - 1)
         ELSE stack)

\* The tokens of the text, and the brackets they leave open.
Kept == lex(json).tokens

Open == OpenStack(Kept, 1, <<>>)

\* The text was cut inside an Array or Object.
Truncated == pc = "parsed" /\ Open # <<>>

\* Where the tokens run out: at the head of the loop (after the opening
\* bracket or a comma), after a key, after the colon of a key, or after a
\* member value.
RunsOutAt ==
  LET n == Len(Kept)
      last == Kept[n].type
  IN  IF last \in {"LeftBracket", "LeftBrace", "Comma"} THEN "head"
      ELSE IF last = "Colon" THEN "colon"
      ELSE IF /\ last = "String"
              /\ Open[Len(Open)] = "LeftBrace"
              /\ Kept[n - 1].type \in {"LeftBrace", "Comma"} THEN "key"
      ELSE "member"

\* The commas of tokens i.. that separate members of the outermost
\* collection.
RECURSIVE OuterCommas(_, _, _)
OuterCommas(tokens, i, depth) ==
  IF i > Len(tokens) THEN 0
  ELSE LET ty == tokens[i].type
       IN  (IF ty = "Comma" /\ depth = 1 THEN 1 ELSE 0)
           + OuterCommas(tokens, i + 1,
               IF ty \in {"LeftBracket", "LeftBrace"} THEN depth + 1
               ELSE IF ty \in {"RightBracket", "RightBrace"} THEN depth - 1
               ELSE depth)

\* The collection v with its first m members only.
FirstMembers(v, m) ==
  IF v.tag = "Array" THEN Array(SubSeq(v.arr, 1, m)) ELSE Object(SubSeq(v.obj, 1, m))

\* The error of the match after a member of the collection that bracket
\* opens.
ExpectedCommaOr(bracket) ==
  IF bracket = "LeftBracket" THEN "Expected ',' or ']'" ELSE "Expected ',' or '}'"

MaxLexPieces == 4

\* The keywords, a letter above 't', a letter that starts a keyword scan,
\* a space, a tab, a form feed, the quote, the backslash, a digit, the minus sign
\* and a symbol.
LexPieces ==
  {<<"n", "u", "l", "l">>, <<"t", "r", "u", "e">>, <<"f", "a", "l", "s", "e">>,
   <<"u">>, <<"s">>,
   <<SP>>, <<TAB>>, <<FF>>, <<QUOTE>>, <<BSLASH>>, <<"1">>, <<"-">>, <<",">>}

\* JsonLexer::new(json): the lexer holds the trimmed text, index 0.
StartLex ==
  /\ pc = "text"
  /\ json' = Trim(json)
  /\ result' = Lexing(<<>>, 0)
  /\ pc' = "lexing"
  /\ UNCHANGED <<value, pretty, again, built, members, operand>>

\* The loop of lex runs one iteration, or ends on the end of the text.
LexStep ==
  /\ pc = "lexing"
  /\ IF CharAt(json, result.index) = NoChar
       THEN /\ result' = [kind |-> "Ok", tokens |-> result.tokens]
            /\ pc' = "lexed"
       ELSE /\ result' = LexIteration(json, result.index, result.tokens)
            /\ pc' = IF result'.kind = "Lexing" THEN "lexing" ELSE "lexed"
  /\ UNCHANGED <<value, pretty, json, again, built, members, operand>>

NextLex ==
  \/ AppendPiece(LexPieces, MaxLexPieces)
  \/ StartLex
  \/ LexStep

SpecLex == InitText /\ [][NextLex]_vars

(***************************************************************************)
(* Properties of SpecLex                                                   *)
(***************************************************************************)
\* The iterations of LexStep end in what lex returns.
LexStepsAgree == pc = "lexed" => result = lex(json)


\* The character an escape letter stands for.
Unescaped ==
  [e \in {QUOTE, BSLASH, SLASH, "b", "f", "n", "r", "t"} |->
     CASE e = QUOTE -> QUOTE [] e = BSLASH -> BSLASH [] e = SLASH -> SLASH
       [] e = "b" -> BS [] e = "f" -> FF [] e = "n" -> LF
       [] e = "r" -> CR [] e = "t" -> TAB]

\* How the string literal whose body starts at character index i of t
\* ends, read character by character: "closed" by an unescaped quote at
\* index at; "open" when t ends first; "backslash" when t ends directly
\* after the backslash at index at; "escape" at a backslash at index at
\* followed by a character that starts no escape; "unicode" at a backslash
\* followed by u.  text is what the body decodes to up to there.
RECURSIVE Literal(_, _, _)
Literal(t, i, text) ==
  IF i >= Len(t) THEN [ends |-> "open", at |-> i, text |-> text]
  ELSE IF t[i + 1] = QUOTE THEN [ends |-> "closed", at |-> i, text |-> text]
  ELSE IF t[i + 1] # BSLASH THEN Literal(t, i + 1, Append(text, t[i + 1]))
  ELSE IF i + 1 >= Len(t) THEN [ends |-> "backslash", at |-> i, text |-> text]
  ELSE IF t[i + 2] \in DOMAIN Unescaped
    THEN Literal(t, i + 2, Append(text, Unescaped[t[i + 2]]))
  ELSE IF t[i + 2] = "u" THEN [ends |-> "unicode", at |-> i, text |-> text]
  ELSE [ends |-> "escape", at |-> i, text |-> text]

\* The next iteration of lex starts on a quote: it scans a string literal.
StringStarts == pc = "lexing" /\ CharAt(json, result.index) = QUOTE

\* The literal that starts at the lexer index.
LiteralHere == Literal(json, result.index + 1, <<>>)

\* C13 (as claimed): when the literal holds a backslash at index p followed
\* by a character that starts no escape, lex fails with 'Invalid escape
\* sequence', its index p + 1.
C13_InvalidEscapeAfterBackslash ==
  [][(StringStarts /\ LiteralHere.ends = "escape") =>
       result' = Err("Invalid escape sequence",
                     <<CharAt(json, LiteralHere.at + 1)>>, LiteralHere.at + 1)]_vars

\* C13 (amended): when the literal holds a backslash at index p followed by
\* a character that starts no escape, lex fails with 'Invalid escape
\* sequence', its index p, the index of the backslash.
C13_InvalidEscapeAtBackslash ==
  [][(StringStarts /\ LiteralHere.ends = "escape") =>
       result' = Err("Invalid escape sequence",
                     <<CharAt(json, LiteralHere.at + 1)>>, LiteralHere.at)]_vars

\* C13 witness: in a literal that follows a comma, a backslash before the
\* digit 1 was reported at the backslash.
C13_Witness ==
  /\ pc = "lexed"
  /\ json = <<",", QUOTE, BSLASH, "1">>
  /\ result = Err("Invalid escape sequence", <<"1">>, 2)


\* The four characters the whitespace arm of lex is entered on.
SkippedChars == {SP, TAB, LF, CR}

\* The characters some arm of lex is entered on.
DispatchedChars ==
  SkippedChars \cup {QUOTE, "-"} \cup Digits \cup KeywordStart \cup SymbolChars

\* The index of the first character of t at or after index i that is not in
\* class (the length of t when there is none).
EndOfRun(t, i, class) ==
  CHOOSE j \in i..Len(t) :
    /\ CharAt(t, j) \notin class
    /\ \A k \in i..(j - 1) : CharAt(t, k) \in class

\* An iteration of lex entered outside a string literal on a character no
\* arm is for fails with 'Unexpected' at that character's index.
UnlistedCharacterRejected ==
  [][(pc = "lexing" /\ CharAt(json, result.index) \notin DispatchedChars \cup {NoChar}) =>
       result' = Err("Unexpected", <<CharAt(json, result.index)>>, result.index)]_vars

\* C14 (as claimed): an iteration of lex entered on a character no arm is
\* for fails with 'Unexpected' at that character's index, and an iteration
\* entered on a space, tab, newline or carriage return skips the run of
\* those four characters and no other character, so that a form feed after
\* a space is the character the next iteration is entered on.
C14_OnlyFourSkipped ==
  [][(pc = "lexing" /\ CharAt(json, result.index) # NoChar) =>
       /\ CharAt(json, result.index) \notin DispatchedChars =>
            result' = Err("Unexpected", <<CharAt(json, result.index)>>, result.index)
       /\ CharAt(json, result.index) \in SkippedChars =>
            result' = Lexing(result.tokens, EndOfRun(json, result.index, SkippedChars))]_vars


(***************************************************************************)
(* SpecOrder: the text of an Object of at most MaxEntries members is       *)
(* assembled member by member, each member whole or broken after its key,  *)
(* closed and parsed.  members records, for each member, the text its key  *)
(* decodes to, the offset of its key, how it is written and the offset of  *)
(* the token that follows its key.                                         *)
(***************************************************************************)
MaxEntries == 3

\* What follows the key of a member: a colon and a value; a value without
\* the colon; a colon and no value; a colon and a closing bracket.
MemberForms ==
  {[form |-> "whole", text |-> <<":", "1">>],
   [form |-> "nocolon", text |-> <<"1">>],
   [form |-> "novalue", text |-> <<":">>],
   [form |-> "badvalue", text |-> <<":", "]">>]}

\* A member is written into the text.
AppendEntry(keys, forms, max) ==
  /\ pc = "members"
  /\ built < max
  /\ \E k \in keys, f \in forms :
       LET sep == IF built > 0 THEN <<",">> ELSE <<>>
           at == Len(json) + Len(sep)
       IN  /\ json' = json \o sep \o k.lexeme \o f.text
           /\ members' = Append(members,
                           [key |-> k.decoded, at |-> at, form |-> f.form,
                            after |-> at + Len(k.lexeme)])
  /\ built' = built + 1
  /\ UNCHANGED <<pc, value, pretty, result, again, operand>>

\* The closing brace is written.
CloseBrace ==
  /\ pc = "members"
  /\ json' = Append(json, "}")
  /\ pc' = "text"
  /\ UNCHANGED <<value, pretty, result, again, built, members, operand>>

NextOrder ==
  \/ AppendEntry(KeyLexemes, MemberForms, MaxEntries)
  \/ CloseBrace
  \/ Parse

SpecOrder == InitObject /\ [][NextOrder]_vars

(***************************************************************************)
(* Properties of SpecOrder                                                 *)
(***************************************************************************)
\* Member j makes the parse fail: it lacks its colon, repeats a key, or
\* lacks a well-formed value.
Offends(j) == members[j].form # "whole" \/ Repeats(j)

\* The error parse_value reports for the token at character offset p.
ValueErrorAt(p) ==
  LET c == CharAt(json, p)
  IN  Err(CASE c = "," -> "Unexpected ','"
            [] c = "}" -> "Unexpected '}'"
            [] c = "]" -> "Unexpected ']'",
          <<>>, p)

\* C16: for the first member that makes the parse fail: when its key is
\* not followed by a colon, parse reports 'Expected ':'' at the token after
\* the key, also when the key is repeated; otherwise, when its key is
\* repeated, parse reports 'Duplicate key' at the key, also when the value
\* is missing or malformed; otherwise parse reports the error of the value;
\* and when no member makes it fail, parse returns Ok.
C16_OrderOfChecks ==
  pc = "parsed" =>
    /\ \A j \in 1..Len(members) :
         (Offends(j) /\ \A i \in 1..(j - 1) : ~Offends(i)) =>
           result =
             IF members[j].form = "nocolon"
               THEN Err("Expected ':'", <<>>, members[j].after)
             ELSE IF Repeats(j)
               THEN Err("Duplicate key", members[j].key, members[j].at)
             ELSE ValueErrorAt(members[j].after + 1)
    /\ (\A j \in 1..Len(members) : ~Offends(j)) => result.kind = "Ok"

\* C16 witness: the second member repeats the key of the first and has a
\* closing bracket for its value; parse reported the duplicate key.
C16_Witness ==
  /\ pc = "parsed"
  /\ Len(members) = 2
  /\ members[1].form = "whole"
  /\ members[2].key = members[1].key
  /\ members[2].form = "badvalue"
  /\ result.kind = "Err"
  /\ result.message = "Duplicate key"


\* C17: when the text ends inside a string literal, before an unescaped
\* closing quote, every escape of the literal recognised, lex returns no
\* error: the iteration pushes a String token of the characters decoded so
\* far, positioned at the opening quote, and leaves the lexer at the end of
\* the text, where the loop ends; when the text ends directly after a
\* backslash of the literal, lex fails with 'Unexpected end of string', its
\* index the length of the trimmed text.
C17_UnterminatedString ==
  [][StringStarts =>
       /\ LiteralHere.ends = "open" =>
            result' = Lexing(Append(result.tokens,
                                    Token("String", LiteralHere.text, result.index)),
                             Len(json))
       /\ LiteralHere.ends = "backslash" =>
            result' = Err("Unexpected end of string", <<>>, Len(json))]_vars

\* C17 witness: the text 1"\" ended inside the literal opened at index 1,
\* and lex returned the Number and a String token of one quote.
C17_Witness ==
  /\ pc = "lexed"
  /\ json = <<"1", QUOTE, BSLASH, QUOTE>>
  /\ result.kind = "Ok"
  /\ Len(result.tokens) = 2
  /\ result.tokens[2] = Token("String", <<QUOTE>>, 1)


(***************************************************************************)
(* SpecLayout: a value of at most MaxNodesL nodes is assembled and         *)
(* serialised under some mode.                                             *)
(***************************************************************************)
MaxNodesL == 4

LeavesL == {Null, Number(0 - 12), String(<<"a", SP>>), String(<<QUOTE, BSLASH, LF>>)}

KeysL == {<<"k">>, <<"a", SP>>}

MembersL == LeavesL \cup {Array(<<>>), Object(<<>>)}

InitLayout == InitValue(MembersL)

NextLayout ==
  \/ NestArray(MaxNodesL)
  \/ NestObject(KeysL, MaxNodesL)
  \/ Push(MembersL, MaxNodesL)
  \/ InsertEntry(MembersL, KeysL, MaxNodesL)
  \/ Stringify

SpecLayout == InitLayout /\ [][NextLayout]_vars

(***************************************************************************)
(* Properties of SpecLayout                                                *)
(***************************************************************************)
\* Positions i .. i + n - 1 of t are n spaces.
SpacesAt(t, i, n) ==
  i + n - 1 <= Len(t) /\ \A k \in i..(i + n - 1) : t[k] = SP

\* Position i of t starts a newline, exactly n spaces and then a character
\* that is no whitespace.
PaddingAt(t, i, n) ==
  /\ i + n + 1 <= Len(t)
  /\ t[i] = LF
  /\ SpacesAt(t, i + 1, n)
  /\ ~IsWhitespace(t[i + n + 1])

\* The text t from position i on, read outside string literals with d
\* collections open, is laid out as mode 2 lays it out: an opening bracket
\* is followed by its closing bracket or by the padding of depth d + 1, a
\* comma by the padding of depth d, a closing bracket is preceded by the
\* padding of depth d - 1, a colon is preceded by the closing quote of the
\* key and followed by exactly one space, and there is no other whitespace.
RECURSIVE Mode2Layout(_, _, _)
Mode2Layout(t, i, d) ==
  IF i > Len(t) THEN d = 0
  ELSE LET c == t[i]
       IN  CASE c = QUOTE ->
                  LET l == Literal(t, i, <<>>)
                  IN  l.ends = "closed" /\ Mode2Layout(t, l.at + 2, d)
             [] c \in {"[", "{"} ->
                  IF i < Len(t) /\ t[i + 1] \in {"]", "}"}
                    THEN Mode2Layout(t, i + 2, d)
                    ELSE /\ PaddingAt(t, i + 1, 2 * (d + 1))
                         /\ t[i + 2 * (d + 1) + 2] \notin {"]", "}"}
                         /\ Mode2Layout(t, i + 2 * (d + 1) + 2, d + 1)
             [] c = "," ->
                  /\ d >= 1
                  /\ PaddingAt(t, i + 1, 2 * d)
                  /\ t[i + 2 * d + 2] \notin {"]", "}"}
                  /\ Mode2Layout(t, i + 2 * d + 2, d)
             [] c = LF ->
                  /\ d >= 1
                  /\ PaddingAt(t, i, 2 * (d - 1))
                  /\ t[i + 2 * (d - 1) + 1] \in {"]", "}"}
                  /\ Mode2Layout(t, i + 2 * (d - 1) + 2, d - 1)
             [] c = ":" ->
                  /\ t[i - 1] = QUOTE
                  /\ SpacesAt(t, i + 1, 1)
                  /\ i + 2 <= Len(t) /\ ~IsWhitespace(t[i + 2])
                  /\ Mode2Layout(t, i + 2, d)
             [] c \in {"]", "}"} \/ IsWhitespace(c) -> FALSE
             [] OTHER -> Mode2Layout(t, i + 1, d)

\* C18: the text of mode 2 is laid out as claimed: each member of a
\* non-empty Array or Object at depth d is preceded by a newline and
\* exactly 2 * (d + 1) spaces, members are separated by a comma directly
\* followed by the next member's padding, the closing bracket is preceded
\* by a newline and exactly 2 * d spaces, and each Object entry is the
\* quoted key, a colon and exactly one space before the value.
C18_Mode2Layout ==
  (pc = "text" /\ pretty = 2) => Mode2Layout(json, 1, 0)

\* C18 witness: an Object of two entries, one of them a non-empty Array,
\* was serialised under mode 2.
C18_Witness ==
  /\ pc = "text"
  /\ pretty = 2
  /\ value.tag = "Object"
  /\ Len(value.obj) = 2
  /\ \E i \in 1..2 : value.obj[i][2].tag = "Array" /\ value.obj[i][2].arr # <<>>
  /\ Mode2Layout(json, 1, 0)


\* The next iteration of lex starts on a character of 'f'..'t': it scans a
\* keyword.
KeywordStarts == pc = "lexing" /\ CharAt(json, result.index) \in KeywordStart

\* The whole run of lowercase letters that starts at the lexer index.
RunHere ==
  SubSeq(json, result.index + 1, EndOfRun(json, result.index, LowerLetters))

\* C19: an iteration entered on a character of 'f'..'t' takes the whole run
\* of lowercase letters that starts there; it pushes Null, Boolean(true) or
\* Boolean(false) at the start of the run, and goes on behind the run, when
\* the run is exactly null, true or false, and fails with 'Unexpected' and
\* the run, at the start of the run, for every other run.
C19_KeywordMaximalMunch ==
  [][KeywordStarts =>
       LET pushed(ty, v) ==
             Lexing(Append(result.tokens, Token(ty, v, result.index)),
                    result.index + Len(RunHere))
       IN  result' =
             CASE RunHere = <<"n", "u", "l", "l">> -> pushed("Null", 0)
               [] RunHere = <<"t", "r", "u", "e">> -> pushed("Boolean", TRUE)
               [] RunHere = <<"f", "a", "l", "s", "e">> -> pushed("Boolean", FALSE)
               [] OTHER -> Err("Unexpected", RunHere, result.index)]_vars

\* C19 witness: after a comma, the run truefalse was refused as a whole at
\* index 1.
C19_Witness ==
  /\ pc = "lexed"
  /\ json = <<",", "t", "r", "u", "e", "f", "a", "l", "s", "e">>
  /\ result = Err("Unexpected", <<"t", "r", "u", "e", "f", "a", "l", "s", "e">>, 1)


\* The tokens pushed so far start at strictly increasing character indices
\* inside the text, and none is an Eof token.
TokensInOrder(tokens) ==
  /\ \A i \in 1..Len(tokens) :
       /\ tokens[i].pos >= 0
       /\ tokens[i].pos < Len(json)
       /\ tokens[i].type # "Eof"
  /\ \A i \in 1..(Len(tokens) - 1) : tokens[i].pos < tokens[i + 1].pos

\* C20: every iteration of the loop of lex either ends the call (with an
\* error, or with the abort of a \u escape) or leaves the lexer index
\* strictly greater than it found it, and the index never passes the end of
\* the text, so the loop ends on every text; the tokens of every lexer
\* state, and so of every successful result, start at strictly increasing
\* indices below the length of the trimmed text, and none is an Eof token.
C20_LexerProgress ==
  /\ [][(pc = "lexing" /\ result'.kind \notin {"Err", "Panic"}) =>
          \/ /\ result'.kind = "Lexing"
             /\ result'.index > result.index
             /\ result'.index <= Len(json)
          \/ /\ result'.kind = "Ok"
             /\ result.index >= Len(json)
             /\ result'.tokens = result.tokens]_vars
  /\ []((pc \in {"lexing", "lexed"} /\ result.kind \in {"Lexing", "Ok"}) =>
          TokensInOrder(result.tokens))

\* C20 witness: a text with whitespace between its tokens was lexed to
\* three tokens, a string literal among them.
C20_Witness ==
  /\ pc = "lexed"
  /\ result.kind = "Ok"
  /\ Len(result.tokens) = 3
  /\ \E i \in 1..3 : result.tokens[i].type = "String"
  /\ \E i \in 2..Len(json) : json[i] = SP /\ json[i - 1] # QUOTE


(***************************************************************************)
(* SpecScope: a text of nested Arrays and Objects is assembled in at most  *)
(* MaxWrites writes, each write a member of the innermost open collection  *)
(* (a number or the opening bracket of a nested collection, after its key  *)
(* when the collection is an Object), every collection closed, and the     *)
(* text parsed.  members records, for each key written, its text, the      *)
(* offset of its opening quote and the offset of the opening brace of the  *)
(* Object it is a key of.                                                  *)
(***************************************************************************)
MaxWrites == 5

KeysS == {<<"a">>, <<"b">>}

\* What a member starts with: a number, a nested Object, a nested Array.
MemberStarts == {<<"1">>, <<"{">>, <<"[">>}

\* The offsets of the opening brackets of t[i..] that are not closed,
\* outermost first, on top of stack.
RECURSIVE Unclosed(_, _, _)
Unclosed(t, i, stack) ==
  IF i > Len(t) THEN stack
  ELSE Unclosed(t, i + 1,
         IF t[i] \in {"{", "["} THEN Append(stack, i - 1)
         ELSE IF t[i] \in {"}", "]"} THEN SubSeq(stack, 1, Len(stack) - 1)
         ELSE stack)

\* A member is written into the innermost open collection; the first write
\* opens the outermost collection.
WriteMember(keys, max) ==
  /\ pc = "members"
  /\ built < max
  /\ LET open == Unclosed(json, 1, <<>>)
         sep == IF json # <<>> /\ json[Len(json)] \notin {"{", "["}
                  THEN <<",">> ELSE <<>>
     IN  /\ json = <<>> \/ open # <<>>
         /\ \E s \in MemberStarts :
              /\ json = <<>> => s # <<"1">>
              /\ IF open # <<>> /\ json[open[Len(open)] + 1] = "{"
                   THEN \E k \in keys :
                          /\ json' = json \o sep \o <<QUOTE>> \o k \o <<QUOTE, ":">> \o s
                          /\ members' = Append(members,
                                          [key |-> k, at |-> Len(json) + Len(sep),
                                           owner |-> open[Len(open)]])
                 ELSE /\ json' = json \o sep \o s
                      /\ members' = members
  /\ built' = built + 1
  /\ UNCHANGED <<pc, value, pretty, result, again, operand>>

\* The innermost open collection is closed; the text is complete when it
\* was the outermost.
CloseInnermost ==
  /\ pc = "members"
  /\ LET open == Unclosed(json, 1, <<>>)
     IN  /\ open # <<>>
         /\ json' = Append(json, IF json[open[Len(open)] + 1] = "{" THEN "}" ELSE "]")
         /\ pc' = IF Len(open) = 1 THEN "text" ELSE "members"
  /\ UNCHANGED <<value, pretty, result, again, built, members, operand>>

InitScope ==
  /\ pc = "members"
  /\ value = NoValue
  /\ pretty = 0
  /\ json = <<>>
  /\ result = NoResult
  /\ again = <<>>
  /\ built = 0
  /\ members = <<>>
  /\ operand = NoOperand

NextScope ==
  \/ WriteMember(KeysS, MaxWrites)
  \/ CloseInnermost
  \/ Parse

SpecScope == InitScope /\ [][NextScope]_vars

(***************************************************************************)
(* Properties of SpecScope                                                 *)
(***************************************************************************)
\* Key j repeats an earlier key of the Object it is a key of.
RepeatsInObject(j) ==
  \E i \in 1..(j - 1) :
    members[i].key = members[j].key /\ members[i].owner = members[j].owner

\* The number of entries of the Objects of v.
RECURSIVE Entries(_)
RECURSIVE EntriesAll(_, _)
EntriesAll(vs, i) ==
  IF i > Len(vs) THEN 0 ELSE Entries(vs[i]) + EntriesAll(vs, i + 1)

Entries(v) ==
  CASE v.tag = "Array" -> EntriesAll(v.arr, 1)
    [] v.tag = "Object" ->
         Len(v.obj) + EntriesAll([i \in 1..Len(v.obj) |-> v.obj[i][2]], 1)
    [] OTHER -> 0

\* C21: the duplicate-key check of an Object sees the keys of that Object
\* only: parse reports 'Duplicate key' exactly for the first key that
\* repeats an earlier key of the same Object, at that key; a key that
\* occurs also in an enclosing, a nested or a sibling Object is not
\* reported, and a text in which no Object repeats a key of its own parses
\* to Ok of a value that holds an entry for every key written.
C21_KeyScopePerObject ==
  pc = "parsed" =>
    /\ \A j \in 1..Len(members) :
         (RepeatsInObject(j) /\ \A i \in 1..(j - 1) : ~RepeatsInObject(i)) =>
           result = Err("Duplicate key", members[j].key, members[j].at)
    /\ (\A j \in 1..Len(members) : ~RepeatsInObject(j)) =>
         /\ result.kind = "Ok"
         /\ Entries(result.val) = Len(members)

\* C21 witness: an Array of two sibling Objects, each with the one key a,
\* was parsed to Ok of an Array of two Objects that both hold the key.
C21_Witness ==
  /\ pc = "parsed"
  /\ json[1] = "["
  /\ Len(members) = 2
  /\ members[1].key = <<"a">>
  /\ members[2].key = <<"a">>
  /\ members[1].owner = 1
  /\ members[2].owner > members[1].at
  /\ result.kind = "Ok"
  /\ result.val.tag = "Array"
  /\ Len(result.val.arr) = 2
  /\ \A m \in 1..2 :
       /\ result.val.arr[m].tag = "Object"
       /\ ContainsKey(result.val.arr[m].obj, <<"a">>)

\* A key that an enclosing Object has inserted before the nested Object is
\* parsed, and that the enclosing Object meets after the nested Object has
\* been parsed, is a duplicate of neither.
NestedKeyParsed ==
  /\ pc = "parsed"
  /\ Len(members) = 3
  /\ members[1].key = members[3].key
  /\ members[1].owner = 0
  /\ members[3].owner # 0
  /\ members[2].owner = 0
  /\ result.kind = "Ok"

NestedKeyThenOwnKey ==
  /\ pc = "parsed"
  /\ Len(members) = 3
  /\ members[2].key = members[3].key
  /\ members[1].owner = 0
  /\ members[2].owner # 0
  /\ members[3].owner = 0
  /\ members[1].key # members[3].key
  /\ result.kind = "Ok"

\* The key of a nested Object does not hide a repeated key of the
\* enclosing Object: the enclosing Object reports its own.
OwnKeyAfterNested ==
  /\ pc = "parsed"
  /\ Len(members) = 3
  /\ members[1].key = members[3].key
  /\ members[1].owner = 0
  /\ members[2].owner # 0
  /\ members[3].owner = 0
  /\ result = Err("Duplicate key", members[3].key, members[3].at)

====
